---- MODULE Spec2Model ----
(***************************************************************************)
(* hack/sizeof.c of go-userfaultfd: a straight-line program that prints    *)
(* nine userfaultfd ioctl request codes ("%-20s %lx\n") and the sizes of   *)
(* ten userfaultfd structures ("%-20s %zu\n") and returns 0.               *)
(*                                                                         *)
(* Text is a sequence of one-character strings.  An unsigned long is a     *)
(* pair <<hi, lo>> of 16-bit limbs (value hi * 2^16 + lo), so that ioctl   *)
(* codes with bit 31 set are represented exactly.                          *)
(***************************************************************************)
EXTENDS Integers, Sequences, FiniteSets, TLC

\* Largest argc an execution is started with.
MaxArgc == 2

\* Values of LANG an execution is started with.
Envs == {"C", "de_DE.UTF-8"}

Limb == 2 ^ 16

---------------------------------------------------------------------------
\* The names handed to the macros.

Identifiers ==
    { "UFFDIO_REGISTER", "UFFDIO_UNREGISTER", "UFFDIO_WAKE", "UFFDIO_COPY",
      "UFFDIO_ZEROPAGE", "UFFDIO_MOVE", "UFFDIO_WRITEPROTECT",
      "UFFDIO_CONTINUE", "UFFDIO_POISON" }

Structs ==
    { "uffd_msg", "uffdio_api", "uffdio_range", "uffdio_register",
      "uffdio_copy", "uffdio_zeropage", "uffdio_writeprotect",
      "uffdio_continue", "uffdio_poison", "uffdio_move" }

\* The preprocessor's # operator: the spelling of a macro argument.
Spelling ==
    [ UFFDIO_REGISTER |-> <<"U","F","F","D","I","O","_","R","E","G","I","S","T","E","R">>,
      UFFDIO_UNREGISTER |-> <<"U","F","F","D","I","O","_","U","N","R","E","G","I","S","T","E","R">>,
      UFFDIO_WAKE |-> <<"U","F","F","D","I","O","_","W","A","K","E">>,
      UFFDIO_COPY |-> <<"U","F","F","D","I","O","_","C","O","P","Y">>,
      UFFDIO_ZEROPAGE |-> <<"U","F","F","D","I","O","_","Z","E","R","O","P","A","G","E">>,
      UFFDIO_MOVE |-> <<"U","F","F","D","I","O","_","M","O","V","E">>,
      UFFDIO_WRITEPROTECT |-> <<"U","F","F","D","I","O","_","W","R","I","T","E","P","R","O","T","E","C","T">>,
      UFFDIO_CONTINUE |-> <<"U","F","F","D","I","O","_","C","O","N","T","I","N","U","E">>,
      UFFDIO_POISON |-> <<"U","F","F","D","I","O","_","P","O","I","S","O","N">>,
      uffd_msg |-> <<"u","f","f","d","_","m","s","g">>,
      uffdio_api |-> <<"u","f","f","d","i","o","_","a","p","i">>,
      uffdio_range |-> <<"u","f","f","d","i","o","_","r","a","n","g","e">>,
      uffdio_register |-> <<"u","f","f","d","i","o","_","r","e","g","i","s","t","e","r">>,
      uffdio_copy |-> <<"u","f","f","d","i","o","_","c","o","p","y">>,
      uffdio_zeropage |-> <<"u","f","f","d","i","o","_","z","e","r","o","p","a","g","e">>,
      uffdio_writeprotect |-> <<"u","f","f","d","i","o","_","w","r","i","t","e","p","r","o","t","e","c","t">>,
      uffdio_continue |-> <<"u","f","f","d","i","o","_","c","o","n","t","i","n","u","e">>,
      uffdio_poison |-> <<"u","f","f","d","i","o","_","p","o","i","s","o","n">>,
      uffdio_move |-> <<"u","f","f","d","i","o","_","m","o","v","e">> ]

Stringify(s) == Spelling[s]

---------------------------------------------------------------------------
\* What <linux/userfaultfd.h> supplies to a build: the request codes and the
\* structure sizes.  Three headers: Linux on x86-64, Linux with the
\* powerpc/mips direction bits, and one with boundary values (0, one digit,
\* a zero low limb, all bits set; one-, two-, three- and more-digit sizes).

Headers ==
    << [ val |-> [ UFFDIO_REGISTER |-> <<49184, 43520>>,
                   UFFDIO_UNREGISTER |-> <<32784, 43521>>,
                   UFFDIO_WAKE |-> <<32784, 43522>>,
                   UFFDIO_COPY |-> <<49192, 43523>>,
                   UFFDIO_ZEROPAGE |-> <<49184, 43524>>,
                   UFFDIO_MOVE |-> <<49192, 43525>>,
                   UFFDIO_WRITEPROTECT |-> <<49176, 43526>>,
                   UFFDIO_CONTINUE |-> <<49184, 43527>>,
                   UFFDIO_POISON |-> <<49184, 43528>> ],
         size |-> [ uffd_msg |-> 32, uffdio_api |-> 24, uffdio_range |-> 16,
                    uffdio_register |-> 32, uffdio_copy |-> 40,
                    uffdio_zeropage |-> 32, uffdio_writeprotect |-> 24,
                    uffdio_continue |-> 32, uffdio_poison |-> 32,
                    uffdio_move |-> 40 ] ],
       [ val |-> [ UFFDIO_REGISTER |-> <<49184, 43520>>,
                   UFFDIO_UNREGISTER |-> <<16400, 43521>>,
                   UFFDIO_WAKE |-> <<16400, 43522>>,
                   UFFDIO_COPY |-> <<49192, 43523>>,
                   UFFDIO_ZEROPAGE |-> <<49184, 43524>>,
                   UFFDIO_MOVE |-> <<49192, 43525>>,
                   UFFDIO_WRITEPROTECT |-> <<49176, 43526>>,
                   UFFDIO_CONTINUE |-> <<49184, 43527>>,
                   UFFDIO_POISON |-> <<49184, 43528>> ],
         size |-> [ uffd_msg |-> 32, uffdio_api |-> 24, uffdio_range |-> 16,
                    uffdio_register |-> 32, uffdio_copy |-> 40,
                    uffdio_zeropage |-> 32, uffdio_writeprotect |-> 24,
                    uffdio_continue |-> 32, uffdio_poison |-> 32,
                    uffdio_move |-> 40 ] ],
       [ val |-> [ UFFDIO_REGISTER |-> <<0, 0>>,
                   UFFDIO_UNREGISTER |-> <<0, 10>>,
                   UFFDIO_WAKE |-> <<0, 43521>>,
                   UFFDIO_COPY |-> <<1, 0>>,
                   UFFDIO_ZEROPAGE |-> <<65535, 65535>>,
                   UFFDIO_MOVE |-> <<0, 255>>,
                   UFFDIO_WRITEPROTECT |-> <<10, 11>>,
                   UFFDIO_CONTINUE |-> <<4096, 1>>,
                   UFFDIO_POISON |-> <<0, 16>> ],
         size |-> [ uffd_msg |-> 1, uffdio_api |-> 9, uffdio_range |-> 10,
                    uffdio_register |-> 99, uffdio_copy |-> 100,
                    uffdio_zeropage |-> 101, uffdio_writeprotect |-> 4096,
                    uffdio_continue |-> 8, uffdio_poison |-> 65535,
                    uffdio_move |-> 1000 ] ] >>

Builds == DOMAIN Headers

---------------------------------------------------------------------------
\* printf's conversions.

HexDigit == <<"0","1","2","3","4","5","6","7","8","9","a","b","c","d","e","f">>

DecDigit == <<"0","1","2","3","4","5","6","7","8","9">>

\* v / 16 and v % 16 of an unsigned long.
ULDiv16(v) == <<v[1] \div 16, (v[1] % 16) * (Limb \div 16) + (v[2] \div 16)>>

ULMod16(v) == v[2] % 16

RECURSIVE Conv_lx_upper(_)
\* Conv_lx with the digits of %lX.
Conv_lx_upper(v) ==
    LET UpperDigit == <<"0","1","2","3","4","5","6","7","8","9","A","B","C","D","E","F">>
    IN  IF ULDiv16(v) = <<0, 0>>
        THEN <<UpperDigit[ULMod16(v) + 1]>>
        ELSE Conv_lx_upper(ULDiv16(v)) \o <<UpperDigit[ULMod16(v) + 1]>>

RECURSIVE Conv_lx(_)
\* %lx: the digits of v in base 16, lowercase, most significant first, no
\* prefix; one digit at least.
Conv_lx(v) ==
    IF ULDiv16(v) = <<0, 0>>
    THEN <<HexDigit[ULMod16(v) + 1]>>
    ELSE Conv_lx(ULDiv16(v)) \o <<HexDigit[ULMod16(v) + 1]>>

RECURSIVE Conv_zu_hex(_)
\* Conv_zu with the base of %zx.
Conv_zu_hex(n) ==
    IF n \div 16 = 0
    THEN <<HexDigit[(n % 16) + 1]>>
    ELSE Conv_zu_hex(n \div 16) \o <<HexDigit[(n % 16) + 1]>>

RECURSIVE Conv_zu(_)
\* %zu: the digits of n in base 10; one digit at least.
Conv_zu(n) ==
    IF n \div 10 = 0
    THEN <<DecDigit[(n % 10) + 1]>>
    ELSE Conv_zu(n \div 10) \o <<DecDigit[(n % 10) + 1]>>

\* %-20s: the string, then blanks up to the field width.
FieldWidth == 20

Conv_s(str) == str \o [i \in 1..(FieldWidth - Len(str)) |-> " "]

\* "%-20s %lx\n"
Format_lx(str, v) == Conv_s(str) \o <<" ">> \o Conv_lx(v) \o <<"\n">>

\* Format_zu with a second newline in the format string.
Format_zu_blank(str, n) == Conv_s(str) \o <<" ">> \o Conv_zu(n) \o <<"\n", "\n">>

\* "%-20s %zu\n"
Format_zu(str, n) == Conv_s(str) \o <<" ">> \o Conv_zu(n) \o <<"\n">>

---------------------------------------------------------------------------
\* main with PRINT_SIZE(uffd_msg) moved above PRINT_VAL(UFFDIO_POISON).
main_swapped ==
    << [macro |-> "PRINT_VAL",  arg |-> "UFFDIO_REGISTER"],
       [macro |-> "PRINT_VAL",  arg |-> "UFFDIO_UNREGISTER"],
       [macro |-> "PRINT_VAL",  arg |-> "UFFDIO_WAKE"],
       [macro |-> "PRINT_VAL",  arg |-> "UFFDIO_COPY"],
       [macro |-> "PRINT_VAL",  arg |-> "UFFDIO_ZEROPAGE"],
       [macro |-> "PRINT_VAL",  arg |-> "UFFDIO_MOVE"],
       [macro |-> "PRINT_VAL",  arg |-> "UFFDIO_WRITEPROTECT"],
       [macro |-> "PRINT_VAL",  arg |-> "UFFDIO_CONTINUE"],
       [macro |-> "PRINT_SIZE", arg |-> "uffd_msg"],
       [macro |-> "PRINT_VAL",  arg |-> "UFFDIO_POISON"],
       [macro |-> "PRINT_SIZE", arg |-> "uffdio_api"],
       [macro |-> "PRINT_SIZE", arg |-> "uffdio_range"],
       [macro |-> "PRINT_SIZE", arg |-> "uffdio_register"],
       [macro |-> "PRINT_SIZE", arg |-> "uffdio_copy"],
       [macro |-> "PRINT_SIZE", arg |-> "uffdio_zeropage"],
       [macro |-> "PRINT_SIZE", arg |-> "uffdio_writeprotect"],
       [macro |-> "PRINT_SIZE", arg |-> "uffdio_continue"],
       [macro |-> "PRINT_SIZE", arg |-> "uffdio_poison"],
       [macro |-> "PRINT_SIZE", arg |-> "uffdio_move"],
       [macro |-> "return",     arg |-> "0"]  >>

\* main without its PRINT_SIZE(uffdio_move) line.
main_short ==
    << [macro |-> "PRINT_VAL",  arg |-> "UFFDIO_REGISTER"],
       [macro |-> "PRINT_VAL",  arg |-> "UFFDIO_UNREGISTER"],
       [macro |-> "PRINT_VAL",  arg |-> "UFFDIO_WAKE"],
       [macro |-> "PRINT_VAL",  arg |-> "UFFDIO_COPY"],
       [macro |-> "PRINT_VAL",  arg |-> "UFFDIO_ZEROPAGE"],
       [macro |-> "PRINT_VAL",  arg |-> "UFFDIO_MOVE"],
       [macro |-> "PRINT_VAL",  arg |-> "UFFDIO_WRITEPROTECT"],
       [macro |-> "PRINT_VAL",  arg |-> "UFFDIO_CONTINUE"],
       [macro |-> "PRINT_VAL",  arg |-> "UFFDIO_POISON"],
       [macro |-> "PRINT_SIZE", arg |-> "uffd_msg"],
       [macro |-> "PRINT_SIZE", arg |-> "uffdio_api"],
       [macro |-> "PRINT_SIZE", arg |-> "uffdio_range"],
       [macro |-> "PRINT_SIZE", arg |-> "uffdio_register"],
       [macro |-> "PRINT_SIZE", arg |-> "uffdio_copy"],
       [macro |-> "PRINT_SIZE", arg |-> "uffdio_zeropage"],
       [macro |-> "PRINT_SIZE", arg |-> "uffdio_writeprotect"],
       [macro |-> "PRINT_SIZE", arg |-> "uffdio_continue"],
       [macro |-> "PRINT_SIZE", arg |-> "uffdio_poison"],
       [macro |-> "return",     arg |-> "0"]  >>

\* main with PRINT_SIZE(uffdio_copy) pasted over PRINT_SIZE(uffdio_continue).
main_dup ==
    << [macro |-> "PRINT_VAL",  arg |-> "UFFDIO_REGISTER"],
       [macro |-> "PRINT_VAL",  arg |-> "UFFDIO_UNREGISTER"],
       [macro |-> "PRINT_VAL",  arg |-> "UFFDIO_WAKE"],
       [macro |-> "PRINT_VAL",  arg |-> "UFFDIO_COPY"],
       [macro |-> "PRINT_VAL",  arg |-> "UFFDIO_ZEROPAGE"],
       [macro |-> "PRINT_VAL",  arg |-> "UFFDIO_MOVE"],
       [macro |-> "PRINT_VAL",  arg |-> "UFFDIO_WRITEPROTECT"],
       [macro |-> "PRINT_VAL",  arg |-> "UFFDIO_CONTINUE"],
       [macro |-> "PRINT_VAL",  arg |-> "UFFDIO_POISON"],
       [macro |-> "PRINT_SIZE", arg |-> "uffd_msg"],
       [macro |-> "PRINT_SIZE", arg |-> "uffdio_api"],
       [macro |-> "PRINT_SIZE", arg |-> "uffdio_range"],
       [macro |-> "PRINT_SIZE", arg |-> "uffdio_register"],
       [macro |-> "PRINT_SIZE", arg |-> "uffdio_copy"],
       [macro |-> "PRINT_SIZE", arg |-> "uffdio_zeropage"],
       [macro |-> "PRINT_SIZE", arg |-> "uffdio_writeprotect"],
       [macro |-> "PRINT_SIZE", arg |-> "uffdio_copy"],
       [macro |-> "PRINT_SIZE", arg |-> "uffdio_poison"],
       [macro |-> "PRINT_SIZE", arg |-> "uffdio_move"],
       [macro |-> "return",     arg |-> "0"]  >>

\* The statements of main, in order.

main ==
    << [macro |-> "PRINT_VAL",  arg |-> "UFFDIO_REGISTER"],
       [macro |-> "PRINT_VAL",  arg |-> "UFFDIO_UNREGISTER"],
       [macro |-> "PRINT_VAL",  arg |-> "UFFDIO_WAKE"],
       [macro |-> "PRINT_VAL",  arg |-> "UFFDIO_COPY"],
       [macro |-> "PRINT_VAL",  arg |-> "UFFDIO_ZEROPAGE"],
       [macro |-> "PRINT_VAL",  arg |-> "UFFDIO_MOVE"],
       [macro |-> "PRINT_VAL",  arg |-> "UFFDIO_WRITEPROTECT"],
       [macro |-> "PRINT_VAL",  arg |-> "UFFDIO_CONTINUE"],
       [macro |-> "PRINT_VAL",  arg |-> "UFFDIO_POISON"],
       [macro |-> "PRINT_SIZE", arg |-> "uffd_msg"],
       [macro |-> "PRINT_SIZE", arg |-> "uffdio_api"],
       [macro |-> "PRINT_SIZE", arg |-> "uffdio_range"],
       [macro |-> "PRINT_SIZE", arg |-> "uffdio_register"],
       [macro |-> "PRINT_SIZE", arg |-> "uffdio_copy"],
       [macro |-> "PRINT_SIZE", arg |-> "uffdio_zeropage"],
       [macro |-> "PRINT_SIZE", arg |-> "uffdio_writeprotect"],
       [macro |-> "PRINT_SIZE", arg |-> "uffdio_continue"],
       [macro |-> "PRINT_SIZE", arg |-> "uffdio_poison"],
       [macro |-> "PRINT_SIZE", arg |-> "uffdio_move"],
       [macro |-> "return",     arg |-> "0"] >>

---------------------------------------------------------------------------
VARIABLES
    build,      \* the header the program was compiled against
    argc, env,  \* what this execution was started with
    pc,         \* the statement of main to execute next
    exited,     \* main has returned and the process has exited
    signalled,  \* the process was killed by SIGPIPE on a write to stdout
    status,     \* the exit status, once exited
    out,        \* the characters written to stdout by this execution
    nwrites,    \* printf calls made by this execution
    nfail,      \* printf calls of this execution whose write failed
    errout,     \* the characters written to stderr by this execution
    stdinPos,   \* bytes consumed from stdin
    ioctls,     \* ioctl requests issued
    opened,     \* files and descriptors opened
    hasPrev, prevArgc, prevOut, prevStatus  \* the last execution that exited

proc == <<argc, env, pc, exited, signalled, status, out, nwrites, nfail, errout>>

world == <<stdinPos, ioctls, opened>>

prev == <<hasPrev, prevArgc, prevOut, prevStatus>>

vars == <<build, proc, world, prev>>

HeaderValue(s) == Headers[build].val[s]

SizeOf(s) == Headers[build].size[s]

Init ==
    /\ build \in Builds
    /\ argc \in 1..MaxArgc
    /\ env \in Envs
    /\ pc = 1
    /\ exited = FALSE
    /\ signalled = FALSE
    /\ status = 0
    /\ out = <<>>
    /\ nwrites = 0
    /\ nfail = 0
    /\ errout = <<>>
    /\ stdinPos = 0
    /\ ioctls = <<>>
    /\ opened = {}
    /\ hasPrev = FALSE
    /\ prevArgc = 1
    /\ prevOut = <<>>
    /\ prevStatus = 0

\* What a write to stdout can do: succeed, fail with an error that printf
\* returns, or raise SIGPIPE (a pipe or socket without a reader), which main
\* leaves at its default action and which kills the process.
Outcomes == {"ok", "error", "SIGPIPE"}

\* printf with its result tested: on an error, a message and exit(1).
printf_checked(text) ==
    /\ out' = out \o text
    /\ nwrites' = nwrites + 1
    /\ \E r \in Outcomes :
          /\ nfail' = IF r = "ok" THEN nfail ELSE nfail + 1
          /\ signalled' = (r = "SIGPIPE")
          /\ exited' = (r = "error")
          /\ status' = IF r = "error" THEN 1 ELSE status
          /\ errout' = IF r = "error"
                       THEN errout \o <<"p","r","i","n","t","f","\n">>
                       ELSE errout
          /\ pc' = IF r = "ok" THEN pc + 1 ELSE pc
    /\ UNCHANGED <<build, argc, env, world, prev>>

\* printf(...) as main uses it: the text goes to stdout and the result of
\* the call is discarded; unless the write killed the process, control
\* passes to the next statement.
printf(text) ==
    /\ out' = out \o text
    /\ nwrites' = nwrites + 1
    /\ \E r \in Outcomes :
          /\ nfail' = IF r = "ok" THEN nfail ELSE nfail + 1
          /\ signalled' = (r = "SIGPIPE")
          /\ pc' = IF r = "SIGPIPE" THEN pc ELSE pc + 1
    /\ UNCHANGED <<build, argc, env, exited, status, errout, world, prev>>

PRINT_SIZE(s) == printf(Format_zu(Stringify(s), SizeOf(s)))

\* PRINT_VAL with the value of a neighbouring line.
PRINT_VAL_other(s) == printf(Format_lx(Stringify(s), HeaderValue("UFFDIO_WAKE")))

\* PRINT_VAL that also issues the request on a userfaultfd descriptor.
PRINT_VAL_ioctl(s) ==
    /\ out' = out \o Format_lx(Stringify(s), HeaderValue(s))
    /\ nwrites' = nwrites + 1
    /\ \E r \in Outcomes :
          /\ nfail' = IF r = "ok" THEN nfail ELSE nfail + 1
          /\ signalled' = (r = "SIGPIPE")
          /\ pc' = IF r = "SIGPIPE" THEN pc ELSE pc + 1
    /\ opened' = opened \cup {"/dev/userfaultfd"}
    /\ ioctls' = Append(ioctls, s)
    /\ UNCHANGED <<build, argc, env, exited, status, errout, stdinPos, prev>>

PRINT_VAL(s) == printf(Format_lx(Stringify(s), HeaderValue(s)))

Ended == exited \/ signalled

Running == ~Ended /\ pc \in DOMAIN main

PrintVal ==
    /\ Running
    /\ main[pc].macro = "PRINT_VAL"
    /\ PRINT_VAL(main[pc].arg)

PrintSize ==
    /\ Running
    /\ main[pc].macro = "PRINT_SIZE"
    /\ PRINT_SIZE(main[pc].arg)

\* Return with a status taken from the command line.
Return_argc ==
    /\ Running
    /\ main[pc].macro = "return"
    /\ \E r \in Outcomes :
          /\ exited' = (r # "SIGPIPE")
          /\ signalled' = (r = "SIGPIPE")
    /\ status' = IF argc > 1 THEN 1 ELSE 0
    /\ UNCHANGED <<build, argc, env, pc, out, nwrites, nfail, errout, world, prev>>

\* return 0: the process exits with status 0 once exit has flushed stdout,
\* whether or not the flush succeeds, unless the flush raises SIGPIPE.
Return ==
    /\ Running
    /\ main[pc].macro = "return"
    /\ \E r \in Outcomes :
          /\ exited' = (r # "SIGPIPE")
          /\ signalled' = (r = "SIGPIPE")
    /\ status' = 0
    /\ UNCHANGED <<build, argc, env, pc, out, nwrites, nfail, errout, world, prev>>

\* The program is run again, with any arguments and environment; prev keeps
\* the last run that exited.
Execute ==
    /\ Ended
    /\ IF exited
       THEN /\ hasPrev' = TRUE
            /\ prevArgc' = argc
            /\ prevOut' = out
            /\ prevStatus' = status
       ELSE UNCHANGED prev
    /\ argc' \in 1..MaxArgc
    /\ env' \in Envs
    /\ pc' = 1
    /\ exited' = FALSE
    /\ signalled' = FALSE
    /\ status' = 0
    /\ out' = <<>>
    /\ nwrites' = 0
    /\ nfail' = 0
    /\ errout' = <<>>
    /\ UNCHANGED <<build, world>>

Step == PrintVal \/ PrintSize \/ Return

Next == PrintVal \/ PrintSize \/ Return \/ Execute

Spec == Init /\ [][Next]_vars

FairSpec == Spec /\ WF_vars(Step)

---------------------------------------------------------------------------
\* Reading the output back: lines, fields, numbers.

Min(S) == CHOOSE x \in S : \A y \in S : x <= y

Max(S) == CHOOSE x \in S : \A y \in S : x >= y

RECURSIVE Ascending(_)
\* The numbers of S in increasing order.
Ascending(S) == IF S = {} THEN <<>> ELSE Ascending(S \ {Max(S)}) \o <<Max(S)>>

\* The lines of s: a line ends at "\n", and text after the last "\n" is a
\* line of its own.
Lines(s) ==
    LET E == Ascending({i \in DOMAIN s : s[i] = "\n"})
        whole == [k \in DOMAIN E |->
                    SubSeq(s, (IF k = 1 THEN 0 ELSE E[k - 1]) + 1, E[k] - 1)]
        done == IF E = <<>> THEN 0 ELSE E[Len(E)]
    IN  IF done < Len(s) THEN whole \o <<SubSeq(s, done + 1, Len(s))>> ELSE whole

Blanks(line) == {i \in DOMAIN line : line[i] = " "}

\* A line read as name, padding, value: the name runs to the first blank,
\* the value starts after the last one; cols counts the columns before the
\* value, and padded tells that only blanks separate name and value.
Fields(line) ==
    LET B == Blanks(line)
        first == IF B = {} THEN Len(line) + 1 ELSE Min(B)
        last == IF B = {} THEN Len(line) ELSE Max(B)
    IN  [ name |-> SubSeq(line, 1, first - 1),
          cols |-> last,
          value |-> SubSeq(line, last + 1, Len(line)),
          padded |-> \A k \in first..last : line[k] = " " ]

\* The lines of the output, read.
Parsed(s) == LET L == Lines(s) IN [i \in DOMAIN L |-> Fields(L[i])]

WellFormed(f) == f.name # <<>> /\ f.value # <<>> /\ f.padded

LowerHex == <<"0","1","2","3","4","5","6","7","8","9","a","b","c","d","e","f">>

Decimal == <<"0","1","2","3","4","5","6","7","8","9">>

Range(f) == {f[i] : i \in DOMAIN f}

DigitValue(table, c) == (CHOOSE i \in DOMAIN table : table[i] = c) - 1

IsNumeral(table, cs) == cs # <<>> /\ \A i \in DOMAIN cs : cs[i] \in Range(table)

RECURSIVE ParseHex(_)
\* The unsigned long a hexadecimal numeral denotes.
ParseHex(cs) ==
    IF cs = <<>>
    THEN <<0, 0>>
    ELSE LET v == ParseHex(SubSeq(cs, 1, Len(cs) - 1))
             d == DigitValue(LowerHex, cs[Len(cs)])
         IN  <<(v[1] * 16 + (v[2] \div (Limb \div 16))) % Limb,
               (v[2] % (Limb \div 16)) * 16 + d>>

RECURSIVE ParseDec(_)
\* The number a decimal numeral denotes.
ParseDec(cs) ==
    IF cs = <<>>
    THEN 0
    ELSE ParseDec(SubSeq(cs, 1, Len(cs) - 1)) * 10 + DigitValue(Decimal, cs[Len(cs)])

\* The checklist of the specification, in its order.
IdentifierOrder ==
    << "UFFDIO_REGISTER", "UFFDIO_UNREGISTER", "UFFDIO_WAKE", "UFFDIO_COPY",
       "UFFDIO_ZEROPAGE", "UFFDIO_MOVE", "UFFDIO_WRITEPROTECT",
       "UFFDIO_CONTINUE", "UFFDIO_POISON" >>

StructOrder ==
    << "uffd_msg", "uffdio_api", "uffdio_range", "uffdio_register",
       "uffdio_copy", "uffdio_zeropage", "uffdio_writeprotect",
       "uffdio_continue", "uffdio_poison", "uffdio_move" >>

Checklist == IdentifierOrder \o StructOrder

IsIdentifierLine(f) == \E t \in Identifiers : f.name = Spelling[t]

IsSizeLine(f) == \E t \in Structs : f.name = Spelling[t]

\* The item a line names.
ItemOf(f) == CHOOSE t \in Identifiers \cup Structs : f.name = Spelling[t]

---------------------------------------------------------------------------
C2_Original == Ended => exited /\ status = 0 /\ nwrites = Len(Checklist)

\* C2: every run ends, by exit or by SIGPIPE; a run that exits has status 0
\* and has issued all 19 writes, and no other exit status occurs.
C2_Terminates ==
    /\ (~Ended) ~> Ended
    /\ [](exited => status = 0 /\ nwrites = Len(Checklist))

C2_Witness == exited /\ status = 0 /\ nwrites = Len(Checklist)

\* C3: the value on each line is the value of the item the line names: the
\* header's request code on an identifier line, the structure's size on a
\* size line.
C3_ValueOfName ==
    LET P == Parsed(out)
    IN  \A i \in DOMAIN P :
            LET f == P[i]
            IN  /\ IsIdentifierLine(f) \/ IsSizeLine(f)
                /\ IsIdentifierLine(f) =>
                       /\ IsNumeral(LowerHex, f.value)
                       /\ ParseHex(f.value) = Headers[build].val[ItemOf(f)]
                /\ IsSizeLine(f) =>
                       /\ IsNumeral(Decimal, f.value)
                       /\ ParseDec(f.value) = Headers[build].size[ItemOf(f)]

\* The line UFFDIO_WAKE aa01 of the specification's scenario, in a full output.
C3_Witness ==
    LET P == Parsed(out)
    IN  /\ exited
        /\ \E i \in DOMAIN P :
              P[i].name = Spelling["UFFDIO_WAKE"] /\ P[i].value = <<"a", "a", "0", "1">>
        /\ \E i \in DOMAIN P :
              P[i].name = Spelling["uffdio_copy"] /\ P[i].value = <<"1", "0", "0">>

\* C4: no two lines of the output have the same name field, and in a
\* finished run every checklist name is the name field of exactly one line.
C4_NamesOnce ==
    LET P == Parsed(out)
    IN  /\ \A i, j \in DOMAIN P : P[i].name = P[j].name => i = j
        /\ exited =>
             \A t \in Identifiers \cup Structs :
                 Cardinality({i \in DOMAIN P : P[i].name = Spelling[t]}) = 1

C4_Witness ==
    LET P == Parsed(out)
    IN  /\ exited
        /\ \E i, j \in DOMAIN P :
              /\ P[i].name = Spelling["UFFDIO_COPY"]
              /\ P[j].name = Spelling["uffdio_copy"]

\* C5: at every moment the output is whole lines only, as many as a prefix
\* of the checklist and naming its items in order, none of them with an
\* empty name or an empty value.
C5_ChecklistPrefix ==
    LET P == Parsed(out)
    IN  /\ Len(P) <= Len(Checklist)
        /\ out # <<>> => out[Len(out)] = "\n"
        /\ \A i \in DOMAIN P :
              WellFormed(P[i]) /\ P[i].name = Spelling[Checklist[i]]

C5_Witness ==
    /\ ~exited
    /\ Len(Lines(out)) = Len(IdentifierOrder) + 1
    /\ out[Len(out)] = "\n"

\* C6: an identifier line is the name from column 1, blanks up to column 20
\* at least, then the request code in lowercase hexadecimal digits only.
C6_IdentifierLine ==
    LET P == Parsed(out)
    IN  \A i \in DOMAIN P :
            LET f == P[i]
            IN  IsIdentifierLine(f) =>
                    /\ WellFormed(f)
                    /\ f.cols >= FieldWidth
                    /\ IsNumeral(LowerHex, f.value)
                    /\ ParseHex(f.value) = HeaderValue(Checklist[i])

C6_Witness ==
    LET P == Parsed(out)
    IN  /\ Len(P) >= Len(IdentifierOrder)
        /\ \A i \in DOMAIN IdentifierOrder : IsIdentifierLine(P[i])
        /\ \E i \in DOMAIN IdentifierOrder :
              \E k \in DOMAIN P[i].value :
                  P[i].value[k] \in {"a", "b", "c", "d", "e", "f"}

\* C7: a size line is the name from column 1, blanks up to column 20 at
\* least, then the structure's size in decimal digits only.
C7_SizeLine ==
    LET P == Parsed(out)
    IN  \A i \in DOMAIN P :
            LET f == P[i]
            IN  IsSizeLine(f) =>
                    /\ WellFormed(f)
                    /\ f.cols >= FieldWidth
                    /\ IsNumeral(Decimal, f.value)
                    /\ ParseDec(f.value) = SizeOf(Checklist[i])

C7_Witness ==
    LET P == Parsed(out)
    IN  /\ exited
        /\ \A i \in DOMAIN StructOrder : IsSizeLine(P[Len(IdentifierOrder) + i])
        /\ \E i \in DOMAIN P : IsSizeLine(P[i]) /\ Len(P[i].value) = 1
        /\ \E i \in DOMAIN P : IsSizeLine(P[i]) /\ Len(P[i].value) > 3

C9_OnlyStdout ==
    [][ /\ UNCHANGED <<stdinPos, ioctls, opened>>
        /\ errout' = <<>>
        /\ ~Ended =>
              \/ /\ nwrites' = nwrites + 1
                 /\ Len(out') > Len(out)
                 /\ SubSeq(out', 1, Len(out)) = out
                 /\ ~exited'
              \/ /\ main[pc].macro = "return"
                 /\ Ended'
                 /\ out' = out
                 /\ nwrites' = nwrites ]_vars

C9_Witness ==
    /\ exited
    /\ nwrites = Len(Checklist)
    /\ stdinPos = 0
    /\ ioctls = <<>>
    /\ opened = {}

\* C10 as claimed: a run in which a write to stdout failed still issues all
\* 19 writes and exits with status 0.
C10_Original ==
    nfail > 0 /\ Ended => exited /\ status = 0 /\ nwrites = Len(Checklist)

\* C10: one pass, no retry and no error path of the program's own: each
\* statement is executed once whether or not earlier writes returned an
\* error, nothing goes to stderr, and a run in which writes returned errors
\* still issues all 19 and exits with 0; only SIGPIPE ends a run early.
C10_NoErrorPath ==
    /\ errout = <<>>
    /\ ~signalled => nwrites = pc - 1
    /\ signalled => nwrites \in {pc - 1, pc}
    /\ exited /\ nfail > 0 => status = 0 /\ nwrites = Len(Checklist)

C10_Witness == exited /\ nfail > 0 /\ nfail < nwrites /\ status = 0

====
